---------------------------- MODULE Spec2Model ----------------------------
(***************************************************************************)
(* Model of the scan-plan-remediate engine of the STIG agent               *)
(* (src/ubuntu_stig_agent): the remediation catalog, create_plan,          *)
(* execute_plan with backup / rollback, the audit store tables and the     *)
(* scanners' failure isolation.                                            *)
(*                                                                         *)
(* Text is modelled as a sequence of atoms.  An atom is a word, a blank    *)
(* " " or the newline "\n"; substring search and the multi-line regular    *)
(* expressions of the catalog work on atoms exactly as Python's work on    *)
(* characters.                                                             *)
(***************************************************************************)
EXTENDS Integers, Sequences, FiniteSets, TLC

\* ---------------------------------------------------------------- bounds
\* The wall clock runs over 0..MaxTime seconds.
MaxTime == 1
\* At most MaxPlans create_plan calls and MaxRuns execute_plan calls.
MaxPlans == 1
MaxRuns == 2
\* At most MaxFaults host operations fail (or exit non-zero) in a behaviour.
MaxFaults == 1
\* A scan meets at most MaxDeviations probes that find a violation or fail.
MaxDeviations == 2
\* A cycle of the agent meets at most MaxFailingScanners scanners that fail.
MaxFailingScanners == 1
\* Findings lists handed to create_plan have at most MaxFindings entries.
MaxFindings == 2

\* ---------------------------------------------------------------- text
NL == "\n"
SP == " "

\* Python's None for optional strings and paths (falsy, like "").
None == <<>>

RECURSIVE split_lines(_)
\* str.split("\n")
split_lines(s) ==
    IF \A i \in 1..Len(s) : s[i] # NL
    THEN <<s>>
    ELSE LET i == CHOOSE k \in 1..Len(s) :
                      s[k] = NL /\ \A j \in 1..(k - 1) : s[j] # NL
         IN  <<SubSeq(s, 1, i - 1)>> \o split_lines(SubSeq(s, i + 1, Len(s)))

RECURSIVE join_lines(_)
\* "\n".join(lines)
join_lines(ls) ==
    IF Len(ls) = 0 THEN <<>>
    ELSE IF Len(ls) = 1 THEN ls[1]
    ELSE ls[1] \o <<NL>> \o join_lines(Tail(ls))

\* Python's `needle in text` on strings.
contains(text, needle) ==
    \E i \in 0..(Len(text) - Len(needle)) :
        \A j \in 1..Len(needle) : text[i + j] = needle[j]

\* re.compile("^" + word + ".*", re.MULTILINE).sub(replacement, text):
\* "^" matches at the start of every line, ".*" runs to the end of that line,
\* and sub() replaces every match.
re_sub_line(word, replacement, line) ==
    IF Len(line) > 0 /\ line[1] = word THEN replacement ELSE line

re_sub(word, replacement, text) ==
    LET ls == split_lines(text)
    IN  join_lines([i \in 1..Len(ls) |-> re_sub_line(word, replacement, ls[i])])

\* ---------------------------------------------------------------- catalog
SSHD_CONFIG == "/etc/ssh/sshd_config"
PWQUALITY_CONF == "/etc/security/pwquality.conf"
FILES == {SSHD_CONFIG, PWQUALITY_CONF}

PERMIT_NO == <<"PermitRootLogin", SP, "no">>
PERMIT_YES == <<"PermitRootLogin", SP, "yes">>
PROTOCOL_2 == <<"Protocol", SP, "2">>
PROTOCOL_1 == <<"Protocol", SP, "1">>

\* A change with a "regex" key stands for the pattern "^<regex>.*".
remediation_map ==
    ("V-72427" :> [type |-> "package_install",
                   package |-> "libpam-pwquality",
                   config_file |-> PWQUALITY_CONF,
                   settings |-> << <<"minlen", "14">>, <<"dcredit", "-1">>,
                                   <<"ucredit", "-1">>, <<"lcredit", "-1">>,
                                   <<"ocredit", "-1">> >>,
                   backup_required |-> TRUE])
    @@
    ("V-72433" :> [type |-> "file_edit",
                   file |-> SSHD_CONFIG,
                   changes |-> << [regex |-> "Protocol", replacement |-> PROTOCOL_2],
                                  [append_if_not_found |-> PROTOCOL_2] >>,
                   service_restart |-> "ssh",
                   backup_required |-> TRUE])
    @@
    ("V-72435" :> [type |-> "service_config",
                   service |-> "ssh",
                   config_file |-> SSHD_CONFIG,
                   changes |-> << [regex |-> "PermitRootLogin", replacement |-> PERMIT_NO],
                                  [append_if_not_found |-> PERMIT_NO] >>,
                   backup_required |-> TRUE])

\* _get_remediation_steps falling back on an entry for an unknown rule_id.
get_remediation_steps_with_default(finding) ==
    IF finding.rule_id \in DOMAIN remediation_map
    THEN <<remediation_map[finding.rule_id]>>
    ELSE <<remediation_map["V-72427"]>>

\* remediation_map.get(rule_id): <<spec>> when found, None (<<>>) otherwise.
get_remediation_steps(finding) ==
    IF finding.rule_id \in DOMAIN remediation_map
    THEN <<remediation_map[finding.rule_id]>>
    ELSE None

\* dict.get(key, default)
dict_get(d, key, default) == IF key \in DOMAIN d THEN d[key] ELSE default

\* ---------------------------------------------------------------- file edit
\* One pass of the loop body of _handle_file_edit over a change.
apply_change(change, new_content) ==
    LET c1 == IF "regex" \in DOMAIN change
              THEN re_sub(change.regex, change.replacement, new_content)
              ELSE new_content
    IN  IF "append_if_not_found" \in DOMAIN change
           /\ ~contains(c1, change.append_if_not_found)
        THEN c1 \o <<NL>> \o change.append_if_not_found
        ELSE c1

RECURSIVE apply_changes(_, _)
\* The loop of _handle_file_edit: the changes applied in order.
apply_changes(changes, content) ==
    IF Len(changes) = 0 THEN content
    ELSE apply_changes(Tail(changes), apply_change(Head(changes), content))


\* ---------------------------------------------------------------- inputs
\* Findings as the scanners emit them (rule_id, title, severity, status);
\* V-72011 has no catalog entry.
RULE_IDS == {"V-72427", "V-72433", "V-72435", "V-72011"}
FINDING_STATUSES == {"failed", "passed", "open", "error"}

finding_title(rule_id) ==
    CASE rule_id = "V-72427" -> "Password Quality Requirements"
      [] rule_id = "V-72433" -> "SSH Protocol Version"
      [] rule_id = "V-72435" -> "SSH Root Login"
      [] OTHER -> "Missing Critical File"

Findings ==
    {[rule_id |-> r, title |-> finding_title(r), severity |-> "high", status |-> s] :
        r \in RULE_IDS, s \in FINDING_STATUSES}

FindingLists ==
    UNION {[1..n -> Findings] : n \in 0..MaxFindings}

\* scan_results.get("scan_id"): a stored scan's id, or Python's None, which
\* the f-string of store_remediation_plan prints as "None".
NO_SCAN_ID == "None"
SCAN_IDS == {"scan_0_host", NO_SCAN_ID}

\* approved_items lists of execute_plan, as sets of finding ids.
ApprovedSets == SUBSET {"V-72427", "V-72433", "V-72435"}

\* Contents of /etc/ssh/sshd_config the host may start with; the first one
\* holds the Protocol keyword on two lines.
SshdSamples ==
    { PERMIT_YES \o <<NL>> \o PROTOCOL_1 \o <<NL>> \o PROTOCOL_1 \o <<NL>>,
      PERMIT_NO \o <<NL>> \o PROTOCOL_2 \o <<NL>> }

\* Contents of /etc/security/pwquality.conf the host may start with: a key of
\* the catalog's settings, a comment and an indented key the catalog does
\* not set.
PwqSamples ==
    { <<SP, "minlen", "=", "8", NL, "# comment", NL,
        SP, "retry", SP, "=", SP, "3", NL>> }

absent == [exists |-> FALSE, content |-> <<>>]
file_of(content) == [exists |-> TRUE, content |-> content]

\* Outcomes of a subprocess call: exit status 0, a non-zero exit status, or
\* create_subprocess_exec itself raising (binary missing, fork failure).
SubprocessOutcomes == {"0", "nonzero", "spawn_error"}
\* Outcomes of a file write or copy: done, refused before touching the
\* destination, or failed after the destination was truncated.
WriteOutcomes == {"ok", "refused", "truncated"}

\* ---------------------------------------------------------------- state
VARIABLES
    fs,                   \* host files: path -> [exists, content]
    backup_dir,           \* /var/lib/stig-agent/backups: backup path -> content
    packages,             \* installed packages
    host_calls,           \* host mutations attempted by the item being executed
    now,                  \* wall clock, in seconds
    remediation_plans,    \* table remediation_plans: plan_id -> row
    remediation_history,  \* table remediation_history: execution_id -> row
    pc,                   \* position inside execute_plan
    ex,                   \* locals of execute_plan
    it,                   \* locals of _execute_remediation_item
    outcome,              \* what the last finished API call returned or raised
    n_plans,              \* create_plan calls made
    n_runs,               \* execute_plan calls made
    n_faults,             \* host operations that failed so far
    scan_out,             \* what the last scan() call returned or raised
    scans,                \* table scans: scan_id -> row
    agent                 \* position and locals of STIGAgent.start

vars == <<fs, backup_dir, packages, host_calls, now, remediation_plans,
          remediation_history, pc, ex, it, outcome, n_plans, n_runs,
          n_faults, scan_out, scans, agent>>

\* The bounded call counters.
counters == <<n_plans, n_runs, n_faults>>

host_vars == <<fs, backup_dir, packages, host_calls>>
db_vars == <<remediation_plans, remediation_history>>
agent_vars == <<scans, agent>>

NO_EX == [plan_id |-> None]
NO_IT == [finding_id |-> ""]
NO_OUTCOME == [call |-> "none"]
NO_SCAN == [scanner |-> "none"]
NO_AGENT == [pc |-> "none"]

Init ==
    /\ fs \in {[f \in FILES |-> IF f = SSHD_CONFIG THEN s ELSE p] :
                  s \in {file_of(c) : c \in SshdSamples} \cup {absent},
                  p \in {file_of(c) : c \in PwqSamples} \cup {absent}}
    /\ backup_dir = <<>>
    /\ packages = {}
    /\ host_calls = <<>>
    /\ now = 0
    /\ remediation_plans = <<>>
    /\ remediation_history = <<>>
    /\ pc = "idle"
    /\ ex = NO_EX
    /\ it = NO_IT
    /\ outcome = NO_OUTCOME
    /\ n_plans = 0
    /\ n_runs = 0
    /\ n_faults = 0
    /\ scan_out = NO_SCAN
    /\ scans = <<>>
    /\ agent = NO_AGENT

\* The wall clock advances; the steps that read it are create_plan,
\* execute_plan (line 101), _create_backup (line 174) and
\* store_remediation_execution, so a tick is taken only right before one.
Tick ==
    /\ now < MaxTime
    /\ pc \in {"idle", "backup", "store"}
    /\ now' = now + 1
    /\ UNCHANGED <<host_vars, db_vars, pc, ex, it, outcome, counters,
                   scan_out, agent_vars>>

\* ---------------------------------------------------------------- store
\* f"plan_{timestamp}_{scan_id}"
plan_id_of(ts, scan_id) == <<"plan", ts, scan_id>>
\* f"exec_{timestamp}_{plan_id}"
execution_id_of(ts, plan_id) == <<"exec", ts>> \o plan_id

\* The INSERT of store_remediation_plan succeeds unless scan_id is NULL
\* (scan_id TEXT NOT NULL) or plan_id repeats (PRIMARY KEY).
store_remediation_plan_ok(plan) ==
    /\ plan.scan_id # NO_SCAN_ID
    /\ plan_id_of(now, plan.scan_id) \notin DOMAIN remediation_plans

store_remediation_plan(plan) ==
    (plan_id_of(now, plan.scan_id) :>
        [scan_id |-> plan.scan_id, timestamp |-> now,
         items |-> plan["items"], status |-> "pending"])
    @@ remediation_plans

\* UPDATE remediation_plans SET status = ? WHERE plan_id = ?
update_remediation_status(plan_id, status) ==
    [p \in DOMAIN remediation_plans |->
        IF p = plan_id
        THEN [remediation_plans[p] EXCEPT !.status = status]
        ELSE remediation_plans[p]]

\* The INSERT of store_remediation_execution succeeds unless execution_id
\* repeats (PRIMARY KEY).
store_remediation_execution_ok(execution) ==
    execution_id_of(now, execution.plan_id) \notin DOMAIN remediation_history

store_remediation_execution(execution) ==
    (execution_id_of(now, execution.plan_id) :>
        [plan_id |-> execution.plan_id, timestamp |-> now,
         items |-> execution["items"], status |-> execution.status,
         result |-> dict_get(execution, "result", <<>>)])
    @@ remediation_history

\* DatabaseManager.get_remediation_plan: the stored plan, or None.
get_remediation_plan(plan_id) ==
    IF plan_id \in DOMAIN remediation_plans
    THEN <<[plan_id |-> plan_id] @@ remediation_plans[plan_id]>>
    ELSE None

get_plan(plan_id) == get_remediation_plan(plan_id)

\* ---------------------------------------------------------------- planner
RECURSIVE plan_items_of_any_status(_)
\* The loop of create_plan without the test of the finding's status.
plan_items_of_any_status(findings) ==
    IF Len(findings) = 0 THEN <<>>
    ELSE LET finding == Head(findings)
             remediation == get_remediation_steps(finding)
         IN  (IF remediation # None
              THEN <<[finding_id |-> finding.rule_id,
                      title |-> finding.title,
                      severity |-> finding.severity,
                      remediation |-> remediation[1],
                      backup_required |->
                          dict_get(remediation[1], "backup_required", TRUE)]>>
              ELSE <<>>)
             \o plan_items_of_any_status(Tail(findings))

RECURSIVE plan_items_of_reversed(_)
\* The loop of create_plan putting each new item in front of the plan.
plan_items_of_reversed(findings) ==
    IF Len(findings) = 0 THEN <<>>
    ELSE LET finding == Head(findings)
             remediation == get_remediation_steps(finding)
         IN  plan_items_of_reversed(Tail(findings))
             \o (IF finding.status = "failed" /\ remediation # None
                 THEN <<[finding_id |-> finding.rule_id,
                         title |-> finding.title,
                         severity |-> finding.severity,
                         remediation |-> remediation[1],
                         backup_required |->
                             dict_get(remediation[1], "backup_required", TRUE)]>>
                 ELSE <<>>)

RECURSIVE plan_items_of(_)
\* The loop of create_plan over the findings.
plan_items_of(findings) ==
    IF Len(findings) = 0 THEN <<>>
    ELSE LET finding == Head(findings)
             remediation == get_remediation_steps(finding)
         IN  (IF finding.status = "failed" /\ remediation # None
              THEN <<[finding_id |-> finding.rule_id,
                      title |-> finding.title,
                      severity |-> finding.severity,
                      remediation |-> remediation[1],
                      backup_required |->
                          dict_get(remediation[1], "backup_required", TRUE)]>>
              ELSE <<>>)
             \o plan_items_of(Tail(findings))

create_plan(findings, scan_id) ==
    LET plan == [scan_id |-> scan_id, items |-> plan_items_of(findings),
                 created_at |-> now]
    IN  /\ pc = "idle"
        /\ n_plans < MaxPlans
        /\ n_plans' = n_plans + 1
        /\ IF store_remediation_plan_ok(plan)
           THEN /\ remediation_plans' = store_remediation_plan(plan)
                /\ outcome' = [call |-> "create_plan", kind |-> "return",
                               findings |-> findings,
                               plan_id |-> plan_id_of(now, scan_id)]
           ELSE /\ UNCHANGED remediation_plans
                /\ outcome' = [call |-> "create_plan", kind |-> "raise",
                               error |-> <<"IntegrityError">>]
        /\ UNCHANGED <<host_vars, now, remediation_history, pc, ex, it, n_runs,
                       n_faults, scan_out, agent_vars>>

CreatePlan ==
    \E findings \in FindingLists, scan_id \in SCAN_IDS :
        create_plan(findings, scan_id)

\* ---------------------------------------------------------------- executor
\* os.path.basename
basename(path) ==
    CASE path = SSHD_CONFIG -> "sshd_config"
      [] path = PWQUALITY_CONF -> "pwquality.conf"
      [] OTHER -> path

\* self.backup_dir / f"{basename}.{timestamp}.bak"
backup_path_of(source, ts) == <<basename(source), ts>>

\* The file _create_backup copies: config_file, else file, else nothing.
backup_source(remediation) ==
    IF "config_file" \in DOMAIN remediation THEN <<remediation.config_file>>
    ELSE IF "file" \in DOMAIN remediation THEN <<remediation.file>>
    ELSE None

\* remediation.get("config_file") or remediation.get("file")
restore_target(remediation) ==
    IF "config_file" \in DOMAIN remediation THEN <<remediation.config_file>>
    ELSE IF "file" \in DOMAIN remediation THEN <<remediation.file>>
    ELSE None

\* The entry point of the handler _execute_remediation_item dispatches to.
handler_entry(remediation) ==
    CASE remediation.type = "package_install" -> "apt"
      [] remediation.type = "file_edit" -> "file_edit"
      [] remediation.type = "service_config" -> "file_edit"
      [] OTHER -> "success"

\* Where _handle_file_edit goes once the file is edited.
after_file_edit(remediation) ==
    IF "service_restart" \in DOMAIN remediation THEN "restart"
    ELSE IF remediation.type = "service_config" THEN "enable"
    ELSE "success"

\* Where control goes after a systemctl call returned.
after_systemctl(at, remediation) ==
    IF at = "restart" /\ remediation.type = "service_config"
    THEN "enable" ELSE "success"

\* What the item's log of host calls keeps of a call's outcome.
call_status(o) == IF o \in {"ok", "0"} THEN "ok" ELSE "failed"

\* The outcomes a host operation may still have, and the fault count after it.
may_happen(outcomes) ==
    IF n_faults < MaxFaults THEN outcomes ELSE outcomes \cap {"ok", "0"}
count_fault(o) ==
    n_faults' = IF o \in {"ok", "0"} THEN n_faults ELSE n_faults + 1

add_change(result, change) ==
    [result EXCEPT !.changes_made = Append(@, change)]

\* An exception raised inside the try block of _execute_remediation_item.
raise_in_item(result, message) ==
    /\ it' = [it EXCEPT !.result = result, !.e = <<message>>]
    /\ pc' = "except"

\* execute_plan going on with an empty plan when the plan is not found.
execute_plan_unchecked(plan_id, approved_items) ==
    LET plan == get_plan(plan_id)
    IN  /\ pc = "idle"
        /\ n_runs < MaxRuns
        /\ n_runs' = n_runs + 1
        /\ ex' = [plan_id |-> plan_id,
                  approved_items |-> approved_items,
                  plan |-> IF plan = None THEN [items |-> <<>>] ELSE plan[1],
                  execution_results |->
                      [plan_id |-> plan_id, timestamp |-> now,
                       items |-> <<>>, status |-> "in_progress"],
                  i |-> 1]
        /\ pc' = "loop"
        /\ outcome' = NO_OUTCOME
        /\ UNCHANGED <<host_vars, db_vars, now, it, n_plans, n_faults,
                       scan_out, agent_vars>>

\* execute_plan, lines 95-104: load the plan, build execution_results.
execute_plan(plan_id, approved_items) ==
    LET plan == get_plan(plan_id)
    IN  /\ pc = "idle"
        /\ n_runs < MaxRuns
        /\ n_runs' = n_runs + 1
        /\ IF plan = None
           THEN /\ outcome' = [call |-> "execute_plan", kind |-> "raise",
                               plan_id |-> plan_id,
                               error |-> <<"Plan not found">>]
                /\ UNCHANGED <<pc, ex>>
           ELSE /\ ex' = [plan_id |-> plan_id,
                          approved_items |-> approved_items,
                          plan |-> plan[1],
                          execution_results |->
                              [plan_id |-> plan_id, timestamp |-> now,
                               items |-> <<>>, status |-> "in_progress"],
                          i |-> 1]
                /\ pc' = "loop"
                /\ outcome' = NO_OUTCOME
        /\ UNCHANGED <<host_vars, db_vars, now, it, n_plans, n_faults,
                   scan_out, agent_vars>>

\* Plan ids a caller may pass: the stored ones and one that was never stored.
PlanIdArgs == DOMAIN remediation_plans \cup {plan_id_of(0, "scan_9_host")}

ExecutePlan ==
    \E plan_id \in PlanIdArgs, approved_items \in ApprovedSets :
        execute_plan(plan_id, approved_items)

\* for_item without the test of approved_items: every item is executed.
for_item_unapproved ==
    /\ pc = "loop"
    /\ IF ex.i > Len(ex.plan["items"])
       THEN /\ ex' = [ex EXCEPT !.execution_results.status = "completed"]
            /\ pc' = "store"
            /\ UNCHANGED <<it, host_calls>>
       ELSE LET item == ex.plan["items"][ex.i]
            IN  /\ it' = [item |-> item,
                          remediation |-> item.remediation,
                          result |-> [finding_id |-> item.finding_id,
                                      title |-> item.title,
                                      status |-> "failed",
                                      changes_made |-> <<>>,
                                      backup_path |-> None],
                          e |-> None,
                          fs_before |-> fs]
                /\ host_calls' = <<>>
                /\ pc' = "backup"
                /\ UNCHANGED ex
    /\ UNCHANGED <<fs, backup_dir, packages, db_vars, now, outcome, counters,
                   scan_out, agent_vars>>

\* execute_plan, lines 107-112: the head of the loop over plan["items"];
\* _execute_remediation_item, lines 127-133: the fresh result.
for_item ==
    /\ pc = "loop"
    /\ IF ex.i > Len(ex.plan["items"])
       THEN /\ ex' = [ex EXCEPT !.execution_results.status = "completed"]
            /\ pc' = "store"
            /\ UNCHANGED <<it, host_calls>>
       ELSE LET item == ex.plan["items"][ex.i]
            IN  IF item.finding_id \in ex.approved_items
                THEN /\ it' = [item |-> item,
                               remediation |-> item.remediation,
                               result |-> [finding_id |-> item.finding_id,
                                           title |-> item.title,
                                           status |-> "failed",
                                           changes_made |-> <<>>,
                                           backup_path |-> None],
                               e |-> None,
                               fs_before |-> fs]
                     /\ host_calls' = <<>>
                     /\ pc' = "backup"
                     /\ UNCHANGED ex
                ELSE /\ ex' = [ex EXCEPT !.i = @ + 1]
                     /\ UNCHANGED <<pc, it, host_calls>>
    /\ UNCHANGED <<fs, backup_dir, packages, db_vars, now, outcome, counters,
                   scan_out, agent_vars>>

\* create_backup with the backup forgotten: the handler runs unprotected.
create_backup_skipped ==
    /\ pc = "backup"
    /\ pc' = handler_entry(it.remediation)
    /\ UNCHANGED <<host_vars, db_vars, now, ex, it, outcome, counters,
                   scan_out, agent_vars>>

\* _execute_remediation_item, lines 139-140, with _create_backup.
create_backup ==
    LET source == backup_source(it.remediation)
    IN  /\ pc = "backup"
        /\ IF dict_get(it.remediation, "backup_required", FALSE)
              /\ source # None /\ fs[source[1]].exists
           THEN \E w \in may_happen(WriteOutcomes) :
                  LET backup_path == backup_path_of(source[1], now)
                  IN  /\ count_fault(w)
                      /\ host_calls' = Append(host_calls, <<"backup", call_status(w)>>)
                      /\ backup_dir' =
                            CASE w = "ok" ->
                                   (backup_path :> fs[source[1]].content) @@ backup_dir
                              [] w = "truncated" ->
                                   (backup_path :> <<>>) @@ backup_dir
                              [] OTHER -> backup_dir
                      /\ IF w = "ok"
                         THEN /\ it' = [it EXCEPT !.result.backup_path = backup_path]
                              /\ pc' = handler_entry(it.remediation)
                         ELSE raise_in_item(it.result, "copy failed")
           ELSE /\ pc' = handler_entry(it.remediation)
                /\ UNCHANGED <<it, backup_dir, host_calls, n_faults>>
        /\ UNCHANGED <<fs, packages, db_vars, now, ex, outcome, n_plans, n_runs,
                   scan_out, agent_vars>>

\* handle_package_installation without the test of the exit status
\* (line 201): only a failure to spawn apt-get stops the handler.
handle_package_installation_unchecked ==
    /\ pc = "apt"
    /\ \E o \in may_happen(SubprocessOutcomes) :
         /\ count_fault(o)
         /\ host_calls' = Append(host_calls, <<"apt-get install", call_status(o)>>)
         /\ IF o # "spawn_error"
            THEN /\ packages' = IF o = "0" THEN packages \cup {it.remediation.package}
                                ELSE packages
                 /\ it' = [it EXCEPT !.result =
                              add_change(@, <<"Installed package", it.remediation.package>>)]
                 /\ pc' = IF "config_file" \in DOMAIN it.remediation
                             /\ "settings" \in DOMAIN it.remediation
                          THEN "update_config" ELSE "success"
            ELSE /\ raise_in_item(it.result, "apt-get: spawn failed")
                 /\ UNCHANGED packages
    /\ UNCHANGED <<fs, backup_dir, db_vars, now, ex, outcome, n_plans, n_runs,
                   scan_out, agent_vars>>

\* _handle_package_installation, lines 192-205.
handle_package_installation ==
    /\ pc = "apt"
    /\ \E o \in may_happen(SubprocessOutcomes) :
         /\ count_fault(o)
         /\ host_calls' = Append(host_calls, <<"apt-get install", call_status(o)>>)
         /\ IF o = "0"
            THEN /\ packages' = packages \cup {it.remediation.package}
                 /\ it' = [it EXCEPT !.result =
                              add_change(@, <<"Installed package", it.remediation.package>>)]
                 /\ pc' = IF "config_file" \in DOMAIN it.remediation
                             /\ "settings" \in DOMAIN it.remediation
                          THEN "update_config" ELSE "success"
            ELSE /\ raise_in_item(it.result,
                       IF o = "nonzero" THEN "Failed to install package"
                       ELSE "apt-get: spawn failed")
                 /\ UNCHANGED packages
    /\ UNCHANGED <<fs, backup_dir, db_vars, now, ex, outcome, n_plans, n_runs,
                   scan_out, agent_vars>>

\* ---------------------------------------------------------------- settings upsert
WHITESPACE == {SP, NL}

RECURSIVE strip(_)
\* str.strip()
strip(line) ==
    IF Len(line) > 0 /\ line[1] \in WHITESPACE THEN strip(Tail(line))
    ELSE IF Len(line) > 0 /\ line[Len(line)] \in WHITESPACE
         THEN strip(SubSeq(line, 1, Len(line) - 1))
    ELSE line

\* f.readlines(): the lines, each with its line end.
readlines(content) ==
    LET ls == split_lines(content)
        n == Len(ls)
    IN  IF ls[n] = <<>>
        THEN [i \in 1..(n - 1) |-> ls[i] \o <<NL>>]
        ELSE [i \in 1..n |-> IF i < n THEN ls[i] \o <<NL>> ELSE ls[i]]

\* line.split('=')[0].strip()
split_key(line) ==
    LET i == CHOOSE k \in 1..Len(line) :
                 line[k] = "=" /\ \A j \in 1..(k - 1) : line[j] # "="
    IN  strip(SubSeq(line, 1, i - 1))

settings_keys(settings) == {settings[i][1] : i \in DOMAIN settings}
settings_value(settings, key) ==
    settings[CHOOSE i \in DOMAIN settings : settings[i][1] = key][2]

\* `key in settings`, the key being the text split_key returns.
key_in_settings(key, settings) ==
    Len(key) = 1 /\ key[1] \in settings_keys(settings)

RECURSIVE update_lines(_, _, _, _)
\* _update_config_file, lines 260-271: acc holds updated_lines, settings_found
\* and the entries appended to changes_made.
update_lines(lines, settings, file_path, acc) ==
    IF Len(lines) = 0 THEN acc
    ELSE LET line == strip(Head(lines))
             key == split_key(line)
         IN  update_lines(Tail(lines), settings, file_path,
                 IF "=" \in {line[k] : k \in 1..Len(line)}
                    /\ key_in_settings(key, settings)
                 THEN [updated_lines |->
                           Append(acc.updated_lines,
                               <<key[1], SP, "=", SP, settings_value(settings, key[1])>>),
                       settings_found |-> acc.settings_found \cup {key[1]},
                       changes |-> Append(acc.changes, <<"Updated", key[1], file_path>>)]
                 ELSE [acc EXCEPT !.updated_lines = Append(@, line)])

RECURSIVE add_missing(_, _, _)
\* _update_config_file, lines 274-277.
add_missing(settings, file_path, acc) ==
    IF Len(settings) = 0 THEN acc
    ELSE LET key == Head(settings)[1]
             value == Head(settings)[2]
         IN  add_missing(Tail(settings), file_path,
                 IF key \notin acc.settings_found
                 THEN [acc EXCEPT
                          !.updated_lines = Append(@, <<key, SP, "=", SP, value>>),
                          !.changes = Append(@, <<"Added", key, file_path>>)]
                 ELSE acc)

\* _update_config_file on a readable file: the text it writes and the entries
\* it appends to changes_made.
update_config_file(content, settings, file_path) ==
    LET acc == add_missing(settings, file_path,
                   update_lines(readlines(content), settings, file_path,
                       [updated_lines |-> <<>>, settings_found |-> {},
                        changes |-> <<>>]))
    IN  [content |-> join_lines(acc.updated_lines), changes |-> acc.changes]

\* open(path, 'w') and f.write(text) with outcome w.
write_file(path, text, w) ==
    CASE w = "ok" -> [fs EXCEPT ![path] = file_of(text)]
      [] w = "truncated" -> [fs EXCEPT ![path] = file_of(<<>>)]
      [] OTHER -> fs

\* _handle_package_installation, lines 208-213, with _update_config_file.
handle_update_config_file ==
    LET file_path == it.remediation.config_file
    IN  /\ pc = "update_config"
        /\ IF ~fs[file_path].exists
           THEN /\ raise_in_item(it.result, "No such file or directory")
                /\ UNCHANGED <<fs, host_calls, n_faults>>
           ELSE LET upd == update_config_file(fs[file_path].content,
                                              it.remediation.settings, file_path)
                    result == [it.result EXCEPT !.changes_made = @ \o upd.changes]
                IN  \E w \in may_happen(WriteOutcomes) :
                      /\ count_fault(w)
                      /\ host_calls' = Append(host_calls, <<"write", call_status(w)>>)
                      /\ fs' = write_file(file_path, upd.content, w)
                      /\ IF w = "ok"
                         THEN /\ it' = [it EXCEPT !.result = result]
                              /\ pc' = "success"
                         ELSE raise_in_item(result, "write failed")
        /\ UNCHANGED <<backup_dir, packages, db_vars, now, ex, outcome, n_plans, n_runs,
                   scan_out, agent_vars>>

\* handle_file_edit without the comparison of line 232: the file is written
\* and the change recorded whatever the changes gave.
handle_file_edit_always_writes ==
    /\ pc = "file_edit"
    /\ IF "file" \notin DOMAIN it.remediation
       THEN /\ raise_in_item(it.result, "'file'")
            /\ UNCHANGED <<fs, host_calls, n_faults>>
       ELSE LET file_path == it.remediation.file
            IN  IF ~fs[file_path].exists
                THEN /\ raise_in_item(it.result, "No such file or directory")
                     /\ UNCHANGED <<fs, host_calls, n_faults>>
                ELSE LET content == fs[file_path].content
                         new_content == apply_changes(it.remediation.changes, content)
                     IN  \E w \in may_happen(WriteOutcomes) :
                           /\ count_fault(w)
                           /\ host_calls' = Append(host_calls, <<"write", call_status(w)>>)
                           /\ fs' = write_file(file_path, new_content, w)
                           /\ IF w = "ok"
                              THEN /\ it' = [it EXCEPT !.result =
                                           add_change(@, <<"Updated", file_path>>)]
                                   /\ pc' = after_file_edit(it.remediation)
                              ELSE raise_in_item(it.result, "write failed")
    /\ UNCHANGED <<backup_dir, packages, db_vars, now, ex, outcome, n_plans, n_runs,
                   scan_out, agent_vars>>

\* _handle_file_edit, lines 217-235 (also the first call of
\* _handle_service_config).
handle_file_edit ==
    /\ pc = "file_edit"
    /\ IF "file" \notin DOMAIN it.remediation
       THEN /\ raise_in_item(it.result, "'file'")
            /\ UNCHANGED <<fs, host_calls, n_faults>>
       ELSE LET file_path == it.remediation.file
            IN  IF ~fs[file_path].exists
                THEN /\ raise_in_item(it.result, "No such file or directory")
                     /\ UNCHANGED <<fs, host_calls, n_faults>>
                ELSE LET content == fs[file_path].content
                         new_content == apply_changes(it.remediation.changes, content)
                     IN  IF new_content # content
                         THEN \E w \in may_happen(WriteOutcomes) :
                                /\ count_fault(w)
                                /\ host_calls' = Append(host_calls, <<"write", call_status(w)>>)
                                /\ fs' = write_file(file_path, new_content, w)
                                /\ IF w = "ok"
                                   THEN /\ it' = [it EXCEPT !.result =
                                                add_change(@, <<"Updated", file_path>>)]
                                        /\ pc' = after_file_edit(it.remediation)
                                   ELSE raise_in_item(it.result, "write failed")
                         ELSE /\ pc' = after_file_edit(it.remediation)
                              /\ UNCHANGED <<fs, host_calls, it, n_faults>>
    /\ UNCHANGED <<backup_dir, packages, db_vars, now, ex, outcome, n_plans, n_runs,
                   scan_out, agent_vars>>

\* _restart_service / _enable_service: the exit status is not looked at;
\* lines 240 and 249 record the change.
systemctl ==
    LET verb == IF pc = "restart" THEN "restart" ELSE "enable"
        service == IF pc = "restart" THEN it.remediation.service_restart
                   ELSE it.remediation.service
    IN  /\ pc \in {"restart", "enable"}
        /\ \E o \in may_happen(SubprocessOutcomes) :
             /\ count_fault(o)
             /\ host_calls' = Append(host_calls, <<"systemctl " \o verb, IF o = "spawn_error" THEN "failed" ELSE o>>)
             /\ IF o = "spawn_error"
                THEN raise_in_item(it.result, "systemctl: spawn failed")
                ELSE /\ it' = [it EXCEPT !.result =
                            add_change(@, <<IF verb = "restart" THEN "Restarted service"
                                            ELSE "Enabled service", service>>)]
                     /\ pc' = after_systemctl(pc, it.remediation)
        /\ UNCHANGED <<fs, backup_dir, packages, db_vars, now, ex, outcome, n_plans, n_runs,
                   scan_out, agent_vars>>

\* append_result going on to the next item while the result of this one is
\* still pending: the await of line 109 dropped.
append_result_pending(result) ==
    /\ ex' = [ex EXCEPT !.i = @ + 1]
    /\ pc' = "loop"

\* The result of the item joins execution_results["items"] (line 110).
append_result(result) ==
    /\ ex' = [ex EXCEPT !.execution_results["items"] = Append(@, result), !.i = @ + 1]
    /\ pc' = "loop"

\* _execute_remediation_item, lines 152 and 160: the handler returned.
item_success ==
    /\ pc = "success"
    /\ it' = [it EXCEPT !.result.status = "success"]
    /\ append_result(it'.result)
    /\ UNCHANGED <<host_vars, db_vars, now, outcome, counters,
                   scan_out, agent_vars>>

\* restore_applies with the existence test of line 182 inverted.
restore_applies_inverted(backup_path, remediation) ==
    /\ backup_path # None
    /\ backup_path \notin DOMAIN backup_dir
    /\ restore_target(remediation) # None

\* _restore_from_backup does nothing without a backup or a target.
restore_applies(backup_path, remediation) ==
    /\ backup_path # None
    /\ backup_path \in DOMAIN backup_dir
    /\ restore_target(remediation) # None

\* item_except restoring the target from any backup kept of it, the failing
\* item's own or an earlier item's.
item_except_any_backup ==
    LET result == ("error" :> it.e[1]) @@ it.result
    IN  /\ pc = "except"
        /\ it' = [it EXCEPT !.result = result]
        /\ IF result.backup_path # None
              /\ restore_applies(result.backup_path, it.remediation)
           THEN \E w \in may_happen(WriteOutcomes) :
                \E b \in {p \in DOMAIN backup_dir : p[1] = result.backup_path[1]} :
                  /\ count_fault(w)
                  /\ host_calls' = Append(host_calls, <<"restore", call_status(w)>>)
                  /\ fs' = write_file(restore_target(it.remediation)[1],
                                      backup_dir[b], w)
                  /\ IF w = "ok"
                     THEN append_result(result)
                     ELSE /\ ex' = [ex EXCEPT !.execution_results =
                                  ("error" :> "copy failed")
                                  @@ [@ EXCEPT !.status = "failed"]]
                          /\ pc' = "store"
           ELSE /\ append_result(result)
                /\ UNCHANGED <<fs, host_calls, n_faults>>
        /\ UNCHANGED <<backup_dir, packages, db_vars, now, outcome, n_plans, n_runs,
                   scan_out, agent_vars>>

\* _execute_remediation_item, lines 154-160, with _restore_from_backup; a
\* failing restore leaves the item for the handler of execute_plan
\* (lines 114-117).
item_except ==
    LET result == ("error" :> it.e[1]) @@ it.result
    IN  /\ pc = "except"
        /\ it' = [it EXCEPT !.result = result]
        /\ IF result.backup_path # None
              /\ restore_applies(result.backup_path, it.remediation)
           THEN \E w \in may_happen(WriteOutcomes) :
                  /\ count_fault(w)
                  /\ host_calls' = Append(host_calls, <<"restore", call_status(w)>>)
                  /\ fs' = write_file(restore_target(it.remediation)[1],
                                      backup_dir[result.backup_path], w)
                  /\ IF w = "ok"
                     THEN append_result(result)
                     ELSE /\ ex' = [ex EXCEPT !.execution_results =
                                  ("error" :> "copy failed")
                                  @@ [@ EXCEPT !.status = "failed"]]
                          /\ pc' = "store"
           ELSE /\ append_result(result)
                /\ UNCHANGED <<fs, host_calls, n_faults>>
        /\ UNCHANGED <<backup_dir, packages, db_vars, now, outcome, n_plans, n_runs,
                   scan_out, agent_vars>>

\* execute_plan, line 120.  A repeated execution_id makes the INSERT raise,
\* and execute_plan with it.
store_execution ==
    /\ pc = "store"
    /\ IF store_remediation_execution_ok(ex.execution_results)
       THEN /\ remediation_history' = store_remediation_execution(ex.execution_results)
            /\ pc' = "update"
            /\ UNCHANGED <<ex, it, outcome, host_calls>>
       ELSE /\ outcome' = [call |-> "execute_plan", kind |-> "raise",
                           plan_id |-> ex.plan_id,
                           error |-> <<"IntegrityError">>]
            /\ pc' = "idle"
            /\ ex' = NO_EX
            /\ it' = NO_IT
            /\ host_calls' = <<>>
            /\ UNCHANGED remediation_history
    /\ UNCHANGED <<fs, backup_dir, packages, remediation_plans, now, counters,
                   scan_out, agent_vars>>

\* execute_plan, lines 121-123.
update_status ==
    /\ pc = "update"
    /\ remediation_plans' =
           update_remediation_status(ex.plan_id, ex.execution_results.status)
    /\ outcome' = [call |-> "execute_plan", kind |-> "return",
                   plan_id |-> ex.plan_id,
                   value |-> ex.execution_results]
    /\ pc' = "idle"
    /\ ex' = NO_EX
    /\ it' = NO_IT
    /\ host_calls' = <<>>
    /\ UNCHANGED <<fs, backup_dir, packages, remediation_history, now, counters,
                   scan_out, agent_vars>>

Next ==
    \/ Tick
    \/ CreatePlan
    \/ ExecutePlan
    \/ for_item
    \/ create_backup
    \/ handle_package_installation
    \/ handle_update_config_file
    \/ handle_file_edit
    \/ systemctl
    \/ item_success
    \/ item_except
    \/ store_execution
    \/ update_status

Spec == Init /\ [][Next]_vars

\* ---------------------------------------------------------------- approval
\* Between create_plan and execute_plan the plan lies in the store, where
\* the approval step may override the backup_required value of an item; the
\* RemediationSpec embedded in the item is not touched.
override_backup_required ==
    /\ pc = "idle"
    /\ \E plan_id \in DOMAIN remediation_plans :
       \E k \in 1..Len(remediation_plans[plan_id]["items"]) :
          /\ remediation_plans[plan_id].status = "pending"
          /\ remediation_plans[plan_id]["items"][k].backup_required
          /\ remediation_plans' =
                [remediation_plans EXCEPT
                    ![plan_id]["items"][k].backup_required = FALSE]
    /\ UNCHANGED <<host_vars, remediation_history, now, pc, ex, it, outcome,
                   counters, scan_out, agent_vars>>

\* Plans of failed findings the catalog knows, and runs that approve every
\* item of a stored plan.
FailedCatalogFindings ==
    {f \in Findings : f.status = "failed" /\ f.rule_id \in DOMAIN remediation_map}

ApprovalCreatePlan ==
    \E findings \in UNION {[1..n -> FailedCatalogFindings] : n \in 1..MaxFindings} :
        create_plan(findings, "scan_0_host")

ApprovalExecutePlan ==
    \E plan_id \in DOMAIN remediation_plans :
        execute_plan(plan_id, DOMAIN remediation_map)

ApprovalNext ==
    \/ override_backup_required
    \/ Tick
    \/ ApprovalCreatePlan
    \/ ApprovalExecutePlan
    \/ for_item
    \/ create_backup
    \/ handle_package_installation
    \/ handle_update_config_file
    \/ handle_file_edit
    \/ systemctl
    \/ item_success
    \/ item_except
    \/ store_execution
    \/ update_status

SpecApproval == Init /\ [][ApprovalNext]_vars

\* ---------------------------------------------------------------- scanners
\* A Finding as the scanners build it (the "fix" text is left out).
finding(rule_id, title, status, severity, check_type) ==
    [rule_id |-> rule_id, title |-> title, status |-> status,
     severity |-> severity, check_type |-> check_type]

\* What a sub-check hands back: the findings it appended, or the exception
\* that left it.
returns(findings) == [raised |-> FALSE, findings |-> findings]
raises == [raised |-> TRUE, findings |-> <<>>]

\* FilePermissionScanner.__init__
critical_files ==
    <<"/etc/passwd", "/etc/shadow", "/etc/group", "/etc/gshadow",
      "/etc/ssh/sshd_config", "/etc/sudoers">>
check_world_writable == <<"/tmp", "/var/tmp", "/var/log">>
\* ServiceScanner.__init__
required_services == <<"auditd", "sshd", "systemd-timesyncd">>
disabled_services ==
    <<"telnet", "rsh-server", "rlogin-server", "rexec-server", "ypserv",
      "tftp-server", "xinetd", "vsftpd", "rsyncd">>
service_configs == <<"sshd", "auditd">>

\* What a probe of the host may meet: "ok" (compliant), a violation, or a
\* failure: "error" is an exception in the body of the sub-check,
\* "stat_error" / "home_error" one in its inner per-file block, and
\* "status_error" one inside _get_service_status.
FAILURES == {"error", "stat_error", "home_error", "status_error"}

\* FilePermissionScanner._check_critical_files, one file of the loop.
check_critical_files(filepath, o) ==
    CASE o = "missing" ->
           returns(<<finding("V-72011", "Missing Critical File: " \o filepath,
                             "failed", "high", "file_permission")>>)
      [] o = "mode" ->
           returns(<<finding("V-72013", "Incorrect File Permissions: " \o filepath,
                             "failed", "high", "file_permission")>>)
      [] o = "owner" ->
           returns(<<finding("V-72015", "Incorrect File Ownership: " \o filepath,
                             "failed", "high", "file_permission")>>)
      [] o = "error" ->
           returns(<<finding("CHECK-ERROR", "File Permission Check Error: " \o filepath,
                             "error", "info", "file_permission")>>)
      [] OTHER -> returns(<<>>)

\* FilePermissionScanner._check_world_writable_files, one directory of the
\* loop: both except blocks only log.
check_world_writable_files(directory, o) ==
    CASE o = "writable" ->
           returns(<<finding("V-72017", "World-Writable File: " \o directory \o "/f",
                             "failed", "medium", "file_permission")>>)
      [] OTHER -> returns(<<>>)

\* FilePermissionScanner._check_home_directories.
check_home_directories(subject, o) ==
    CASE o = "insecure" ->
           returns(<<finding("V-72019", "Insecure Home Directory: " \o subject,
                             "failed", "medium", "file_permission")>>)
      [] o = "owner" ->
           returns(<<finding("V-72021", "Incorrect Home Directory Ownership: " \o subject,
                             "failed", "medium", "file_permission")>>)
      [] o = "error" ->
           returns(<<finding("CHECK-ERROR", "Home Directory Check Error",
                             "error", "info", "file_permission")>>)
      [] OTHER -> returns(<<>>)

\* ServiceScanner._check_service_states, one required service: a failure
\* inside _get_service_status leaves active "unknown" and enabled False.
check_required_service(service, o) ==
    LET not_running == finding("V-72051", "Required Service Not Running: " \o service,
                               "failed", "high", "service")
        not_enabled == finding("V-72053", "Required Service Not Enabled: " \o service,
                               "failed", "medium", "service")
    IN  CASE o = "inactive" -> returns(<<not_running>>)
          [] o = "disabled" -> returns(<<not_enabled>>)
          [] o = "status_error" -> returns(<<not_running, not_enabled>>)
          [] OTHER -> returns(<<>>)

\* ServiceScanner._check_service_states, one prohibited service.
check_disabled_service(service, o) ==
    CASE o = "active" ->
           returns(<<finding("V-72055", "Prohibited Service Running: " \o service,
                             "failed", "high", "service")>>)
      [] o = "enabled" ->
           returns(<<finding("V-72057", "Prohibited Service Enabled: " \o service,
                             "failed", "medium", "service")>>)
      [] OTHER -> returns(<<>>)

\* ServiceScanner._check_service_configs, one service of the loop.
check_service_configs(service, o) ==
    CASE o = "missing" ->
           returns(<<finding("V-72059", "Missing Service Configuration: " \o service,
                             "failed", "high", "service")>>)
      [] o = "wrong" ->
           returns(<<finding("V-72061", "Incorrect Service Configuration: " \o service,
                             "failed", "medium", "service")>>)
      [] o = "error" ->
           returns(<<finding("CHECK-ERROR", "Service Configuration Check Error: " \o service,
                             "error", "info", "service")>>)
      [] OTHER -> returns(<<>>)

\* ServiceScanner._check_unauthorized_services.
check_unauthorized_services(subject, o) ==
    CASE o = "telnet" ->
           returns(<<finding("V-72063", "Telnet Port Open", "failed", "high", "service")>>)
      [] o = "ftp" ->
           returns(<<finding("V-72065", "FTP Port Open", "failed", "high", "service")>>)
      [] o = "error" ->
           returns(<<finding("CHECK-ERROR", "Network Service Check Error",
                             "error", "info", "service")>>)
      [] OTHER -> returns(<<>>)

\* ServiceScanner._check_systemd_targets.
check_systemd_targets(subject, o) ==
    CASE o = "graphical" ->
           returns(<<finding("V-72067", "Graphical Target Default",
                             "failed", "medium", "service")>>)
      [] o = "error" ->
           returns(<<finding("CHECK-ERROR", "Systemd Target Check Error",
                             "error", "info", "service")>>)
      [] OTHER -> returns(<<>>)

\* SecurityConfigScanner._check_password_policy.
check_password_policy(subject, o) ==
    CASE o = "bad" ->
           returns(<<finding("V-72427", "Password Quality Requirements",
                             "failed", "high", "password_policy")>>)
      [] o = "error" ->
           returns(<<finding("CHECK-ERROR", "Password Policy Check Error",
                             "error", "error", "password_policy")>>)
      [] OTHER -> returns(<<>>)

\* SecurityConfigScanner._check_ssh_config.
check_ssh_config(subject, o) ==
    CASE o = "protocol" ->
           returns(<<finding("V-72433", "SSH Protocol Version",
                             "failed", "high", "ssh_config")>>)
      [] o = "rootlogin" ->
           returns(<<finding("V-72435", "SSH Root Login",
                             "failed", "high", "ssh_config")>>)
      [] o = "error" ->
           returns(<<finding("CHECK-ERROR", "SSH Configuration Check Error",
                             "error", "error", "ssh_config")>>)
      [] OTHER -> returns(<<>>)

\* SecurityConfigScanner._check_system_security.
check_system_security(subject, o) ==
    CASE o = "bad" ->
           returns(<<finding("V-72439", "Core Dumps", "failed", "medium",
                             "system_security")>>)
      [] o = "error" ->
           returns(<<finding("CHECK-ERROR", "System Security Check Error",
                             "error", "error", "system_security")>>)
      [] OTHER -> returns(<<>>)

\* UserGroupScanner._check_required_entities: no try block.
check_required_entities(subject, o) ==
    CASE o = "missing_user" ->
           returns(<<finding("V-72031", "Missing Required User: root",
                             "failed", "high", "user_group")>>)
      [] o = "missing_group" ->
           returns(<<finding("V-72033", "Missing Required Group: sudo",
                             "failed", "high", "user_group")>>)
      [] o = "error" -> raises
      [] OTHER -> returns(<<>>)

\* UserGroupScanner._check_prohibited_users: no try block.
check_prohibited_users(subject, o) ==
    CASE o = "present" ->
           returns(<<finding("V-72035", "Prohibited User Account: games",
                             "failed", "medium", "user_group")>>)
      [] o = "error" -> raises
      [] OTHER -> returns(<<>>)

\* UserGroupScanner._check_password_aging.
check_password_aging(subject, o) ==
    CASE o = "max" ->
           returns(<<finding("V-72037", "Password Age Violation: user",
                             "failed", "medium", "user_group")>>)
      [] o = "min" ->
           returns(<<finding("V-72039", "Minimum Password Age Violation: user",
                             "failed", "medium", "user_group")>>)
      [] o = "error" ->
           returns(<<finding("CHECK-ERROR", "Password Aging Check Error",
                             "error", "info", "user_group")>>)
      [] OTHER -> returns(<<>>)

\* UserGroupScanner._check_root_account.
check_root_account(subject, o) ==
    CASE o = "uid" ->
           returns(<<finding("V-72041", "Invalid Root UID", "failed", "high",
                             "user_group")>>)
      [] o = "gid" ->
           returns(<<finding("V-72043", "Invalid Root GID", "failed", "high",
                             "user_group")>>)
      [] o = "shell" ->
           returns(<<finding("V-72045", "Invalid Root Shell", "failed", "medium",
                             "user_group")>>)
      [] o = "error" ->
           returns(<<finding("CHECK-ERROR", "Root Account Check Error",
                             "error", "info", "user_group")>>)
      [] OTHER -> returns(<<>>)

\* UserGroupScanner._check_sudo_config: the module never imports os, so
\* line 229 raises NameError inside the try block whenever it is reached.
check_sudo_config(subject, o) ==
    LET sudo_error == finding("CHECK-ERROR", "Sudo Configuration Check Error",
                              "error", "info", "user_group")
    IN  CASE o = "members" ->
               returns(<<finding("V-72047", "Direct Sudo Group Members",
                                 "failed", "medium", "user_group")>>
                       \o <<sudo_error>>)
          [] OTHER -> returns(<<sudo_error>>)

SCANNERS == {"file_permissions", "services", "security_config", "users_groups"}

probes_over(check, subjects) ==
    [k \in 1..Len(subjects) |-> [check |-> check, subject |-> subjects[k]]]

\* The probes of a scanner's scan(), in the order scan() makes them.
probes(scanner) ==
    CASE scanner = "file_permissions" ->
           probes_over("critical_files", critical_files)
           \o probes_over("world_writable_files", check_world_writable)
           \o probes_over("home_directories", <<"/home/user">>)
      [] scanner = "services" ->
           probes_over("required_service", required_services)
           \o probes_over("disabled_service", disabled_services)
           \o probes_over("service_configs", service_configs)
           \o probes_over("unauthorized_services", <<"ss">>)
           \o probes_over("systemd_targets", <<"systemctl">>)
      [] scanner = "security_config" ->
           probes_over("password_policy", <<"/etc/pam.d/common-password">>)
           \o probes_over("ssh_config", <<"/etc/ssh/sshd_config">>)
           \o probes_over("system_security", <<"/etc/security/limits.conf">>)
      [] OTHER ->
           probes_over("required_entities", <<"passwd">>)
           \o probes_over("prohibited_users", <<"passwd">>)
           \o probes_over("password_aging", <<"shadow">>)
           \o probes_over("root_account", <<"root">>)
           \o probes_over("sudo_config", <<"sudo">>)

\* What a probe may meet besides "ok".
deviations_of(check) ==
    CASE check = "critical_files" -> {"missing", "mode", "owner", "error"}
      [] check = "world_writable_files" -> {"writable", "stat_error", "error"}
      [] check = "home_directories" -> {"insecure", "owner", "home_error", "error"}
      [] check = "required_service" -> {"inactive", "disabled", "status_error", "error"}
      [] check = "disabled_service" -> {"active", "enabled", "status_error", "error"}
      [] check = "service_configs" -> {"missing", "wrong", "error"}
      [] check = "unauthorized_services" -> {"telnet", "ftp", "error"}
      [] check = "systemd_targets" -> {"graphical", "error"}
      [] check = "password_policy" -> {"bad", "error"}
      [] check = "ssh_config" -> {"protocol", "rootlogin", "error"}
      [] check = "system_security" -> {"bad", "error"}
      [] check = "required_entities" -> {"missing_user", "missing_group", "error"}
      [] check = "prohibited_users" -> {"present", "error"}
      [] check = "password_aging" -> {"max", "min", "error"}
      [] check = "root_account" -> {"uid", "gid", "shell", "error"}
      [] OTHER -> {"members", "error"}

\* The sub-check (or the pass of its loop) a probe belongs to.
sub_check(probe, o) ==
    CASE probe.check = "critical_files" -> check_critical_files(probe.subject, o)
      [] probe.check = "world_writable_files" ->
           check_world_writable_files(probe.subject, o)
      [] probe.check = "home_directories" -> check_home_directories(probe.subject, o)
      [] probe.check = "required_service" -> check_required_service(probe.subject, o)
      [] probe.check = "disabled_service" -> check_disabled_service(probe.subject, o)
      [] probe.check = "service_configs" -> check_service_configs(probe.subject, o)
      [] probe.check = "unauthorized_services" ->
           check_unauthorized_services(probe.subject, o)
      [] probe.check = "systemd_targets" -> check_systemd_targets(probe.subject, o)
      [] probe.check = "password_policy" -> check_password_policy(probe.subject, o)
      [] probe.check = "ssh_config" -> check_ssh_config(probe.subject, o)
      [] probe.check = "system_security" -> check_system_security(probe.subject, o)
      [] probe.check = "required_entities" ->
           check_required_entities(probe.subject, o)
      [] probe.check = "prohibited_users" -> check_prohibited_users(probe.subject, o)
      [] probe.check = "password_aging" -> check_password_aging(probe.subject, o)
      [] probe.check = "root_account" -> check_root_account(probe.subject, o)
      [] OTHER -> check_sudo_config(probe.subject, o)

\* The hosts a scan may meet: every probe "ok" but for at most MaxDeviations.
Deviations(scanner) ==
    LET ps == probes(scanner)
        one == UNION {{<<k, o>> : o \in deviations_of(ps[k].check)} :
                         k \in 1..Len(ps)}
    IN  UNION {[1..n -> one] : n \in 0..MaxDeviations}

\* The outcome of each probe: the first deviation named for it, else "ok".
env_of(scanner, ds) ==
    [k \in 1..Len(probes(scanner)) |->
        IF \E j \in 1..Len(ds) : ds[j][1] = k
        THEN ds[CHOOSE j \in 1..Len(ds) :
                    ds[j][1] = k /\ \A i \in 1..(j - 1) : ds[i][1] # k][2]
        ELSE "ok"]

RECURSIVE concat(_)
\* findings.extend(...) over the sub-checks in order.
concat(parts) ==
    IF Len(parts) = 0 THEN <<>> ELSE Head(parts) \o concat(Tail(parts))

\* The end of <Scanner>.scan(), given what each sub-check did (rs): an
\* exception leaving a sub-check leaves scan().
scan_result(scanner, env, rs) ==
    IF \E k \in DOMAIN rs : rs[k].raised
    THEN [scanner |-> scanner, env |-> env, raised |-> TRUE]
    ELSE [scanner |-> scanner, env |-> env, raised |-> FALSE,
          parts |-> [k \in DOMAIN rs |-> rs[k].findings],
          findings |-> concat([k \in DOMAIN rs |-> rs[k].findings])]

\* <Scanner>.scan(): each sub-check runs once, in order.
scan(scanner, env) ==
    CHOOSE out \in {scan_result(scanner, e, rs) :
                       e \in {env},
                       rs \in {[k \in 1..Len(probes(scanner)) |->
                                   sub_check(probes(scanner)[k], env[k])]}} : TRUE

exec_vars == <<fs, backup_dir, packages, host_calls, now, remediation_plans,
               remediation_history, pc, ex, it, outcome, n_plans, n_runs,
               n_faults>>

\* One scan() call on a freshly constructed scanner: the scanners keep no
\* state between calls, so later calls repeat the first.
Scan ==
    \E scanner \in SCANNERS :
        \E ds \in Deviations(scanner) :
            /\ scan_out = NO_SCAN
            /\ scan_out' = scan(scanner, env_of(scanner, ds))
            /\ UNCHANGED <<exec_vars, agent_vars>>

SpecScan == Init /\ [][Scan]_vars

\* ---------------------------------------------------------------- agent
\* os.uname()[1]
HOSTNAME == "host"
\* f"scan_{timestamp}_{hostname}"
scan_id_of(ts, hostname) == <<"scan", ts, hostname>>

\* STIGAgent.scanners, in the order run_scan walks them.
scanner_names ==
    <<"file_permissions", "services", "security_config", "users_groups",
      "network", "software">>

\* NetworkScanner.scan and SoftwareScanner.scan: a list of Findings, holding
\* a CHECK-ERROR Finding when a sub-check failed.
external_scan(name, o) ==
    [scanner |-> name, raised |-> FALSE,
     findings |-> IF o = "error"
                  THEN <<finding("CHECK-ERROR", "Check Error", "error", "info", name)>>
                  ELSE <<finding("V-00000", "Violation", "failed", "medium", name)>>]

\* The violation the first probe of a scanner finds on the scanned host.
first_violation(name) ==
    CASE name = "file_permissions" -> "missing"
      [] name = "services" -> "inactive"
      [] name = "security_config" -> "bad"
      [] OTHER -> "missing_user"

\* What scanner.scan() may do in a cycle: report the violation of its first
\* probe ("violation"), or meet an internal failure in that probe ("error").
scanner_runs(name) ==
    {[o |-> o,
      out |-> IF name \in SCANNERS
              THEN scan(name, env_of(name,
                                     <<<<1, IF o = "error" THEN o
                                            ELSE first_violation(name)>>>>))
              ELSE external_scan(name, o)] : o \in {"violation", "error"}}

\* The INSERT of store_scan_results succeeds unless scan_id repeats.
store_scan_results_ok(scan_results) ==
    scan_id_of(now, scan_results.hostname) \notin DOMAIN scans

store_scan_results(scan_results) ==
    (scan_id_of(now, scan_results.hostname) :>
        [timestamp |-> scan_results.timestamp,
         hostname |-> scan_results.hostname,
         findings |-> scan_results.findings,
         status |-> "completed"])
    @@ scans

\* The variables of the remediation manager the agent loop leaves alone.
manager_vars ==
    <<fs, backup_dir, packages, host_calls, remediation_history, pc, ex, it,
      outcome, n_plans, n_runs, n_faults, scan_out>>

\* The agent between cycles.
at_loop(central_server, after) ==
    [pc |-> "loop", central_server |-> central_server, after |-> after]

\* asyncio.run(agent.start()) with the configuration loaded by __init__.
start ==
    /\ agent = NO_AGENT
    /\ \E central_server \in BOOLEAN :
           agent' = at_loop(central_server, "start")
    /\ UNCHANGED <<manager_vars, now, remediation_plans, scans>>

\* start, lines 86-89, and run_scan, lines 50-55: a cycle begins.
begin_cycle ==
    /\ agent.pc = "loop"
    /\ agent' = [pc |-> "scan",
                 central_server |-> agent.central_server,
                 after |-> agent.after,
                 scan_results |-> [timestamp |-> now, hostname |-> HOSTNAME,
                                   findings |-> <<>>],
                 k |-> 1,
                 ran |-> <<>>]
    /\ UNCHANGED <<manager_vars, now, remediation_plans, scans>>

\* The except clause of start, lines 103-104: the cycle is abandoned.
abandon_cycle(e) ==
    [pc |-> "backoff", central_server |-> agent.central_server,
     after |-> agent.after, scan_results |-> agent.scan_results,
     ran |-> agent.ran, error |-> e]

\* run_scanner without the try around scanner.scan(): what a scanner raises
\* leaves run_scan.
run_scanner_unguarded ==
    /\ agent.pc = "scan"
    /\ agent.k <= Len(scanner_names)
    /\ \E run \in scanner_runs(scanner_names[agent.k]) :
           /\ \/ run.o # "error"
              \/ Cardinality({j \in 1..Len(agent.ran) : agent.ran[j].o = "error"})
                     < MaxFailingScanners
           /\ agent' =
                  IF run.out.raised
                  THEN abandon_cycle(<<"scanner">>)
                  ELSE [agent EXCEPT
                           !.k = @ + 1,
                           !.scan_results.findings = @ \o run.out.findings,
                           !.ran = Append(@, [name |-> scanner_names[agent.k],
                                              o |-> run.o,
                                              raised |-> FALSE,
                                              results |-> run.out.findings])]
    /\ UNCHANGED <<manager_vars, now, remediation_plans, scans>>

\* run_scan, lines 57-63: one pass of the loop over the scanners.
run_scanner ==
    /\ agent.pc = "scan"
    /\ agent.k <= Len(scanner_names)
    /\ \E run \in scanner_runs(scanner_names[agent.k]) :
           /\ \/ run.o # "error"
              \/ Cardinality({j \in 1..Len(agent.ran) : agent.ran[j].o = "error"})
                     < MaxFailingScanners
           /\ agent' =
                  [agent EXCEPT
                      !.k = @ + 1,
                      !.scan_results.findings =
                          IF run.out.raised THEN @ ELSE @ \o run.out.findings,
                      !.ran = Append(@, [name |-> scanner_names[agent.k],
                                         o |-> run.o,
                                         raised |-> run.out.raised,
                                         results |-> IF run.out.raised THEN <<>>
                                                     ELSE run.out.findings])]
    /\ UNCHANGED <<manager_vars, now, remediation_plans, scans>>

\* store_scan_results with a failing INSERT let out of the loop of start.
store_scan_uncaught ==
    /\ agent.pc = "scan"
    /\ agent.k > Len(scanner_names)
    /\ IF store_scan_results_ok(agent.scan_results)
       THEN /\ scans' = store_scan_results(agent.scan_results)
            /\ agent' = [pc |-> "plan",
                         central_server |-> agent.central_server,
                         after |-> agent.after,
                         scan_results |-> agent.scan_results,
                         ran |-> agent.ran]
       ELSE /\ agent' = [pc |-> "stopped"]
            /\ UNCHANGED scans
    /\ UNCHANGED <<manager_vars, now, remediation_plans>>

\* run_scan, lines 65-67: the result is stored and returned to start; the
\* scan_id the store made is dropped.
store_scan ==
    /\ agent.pc = "scan"
    /\ agent.k > Len(scanner_names)
    /\ IF store_scan_results_ok(agent.scan_results)
       THEN /\ scans' = store_scan_results(agent.scan_results)
            /\ agent' = [pc |-> "plan",
                         central_server |-> agent.central_server,
                         after |-> agent.after,
                         scan_results |-> agent.scan_results,
                         ran |-> agent.ran]
       ELSE /\ agent' = abandon_cycle(<<"IntegrityError">>)
            /\ UNCHANGED scans
    /\ UNCHANGED <<manager_vars, now, remediation_plans>>

\* start, lines 92-100: generate_remediation_plan, generate_report and
\* _send_results_to_server, which catches what encrypt_data raises.
plan_report_forward ==
    LET scan_results == agent.scan_results
        plan == [scan_id |-> dict_get(scan_results, "scan_id", NO_SCAN_ID),
                 items |-> plan_items_of(scan_results.findings),
                 created_at |-> now]
        sleeping(forwarded) ==
            [pc |-> "sleep", central_server |-> agent.central_server,
             after |-> agent.after, scan_results |-> scan_results,
             ran |-> agent.ran, forwarded |-> forwarded]
    IN  /\ agent.pc = "plan"
        /\ IF ~store_remediation_plan_ok(plan)
           THEN /\ agent' = abandon_cycle(<<"IntegrityError">>)
                /\ UNCHANGED remediation_plans
           ELSE /\ remediation_plans' = store_remediation_plan(plan)
                /\ IF "scan_id" \notin DOMAIN scan_results
                   THEN agent' = abandon_cycle(<<"KeyError", "scan_id">>)
                   ELSE \E report \in {"ok", "raise"}, sent \in {"ok", "raise"} :
                            agent' =
                                IF report = "raise"
                                THEN abandon_cycle(<<"report">>)
                                ELSE IF agent.central_server
                                THEN sleeping(IF sent = "ok" THEN "sent" ELSE "failed")
                                ELSE sleeping("skipped")
        /\ UNCHANGED <<manager_vars, now, scans>>

\* asyncio.sleep, line 102 (the configured interval) or line 105 (60 s); the
\* local wall clock has moved on by then, unless it was set back meanwhile.
sleep ==
    /\ agent.pc \in {"sleep", "backoff"}
    /\ agent' = at_loop(agent.central_server, agent.pc)
    /\ now' = IF now < MaxTime THEN now + 1 ELSE now
    /\ UNCHANGED <<manager_vars, remediation_plans, scans>>

AgentNext ==
    \/ start
    \/ begin_cycle
    \/ run_scanner
    \/ store_scan
    \/ plan_report_forward
    \/ sleep

\* Every call the loop awaits returns or raises, so a step that can be taken
\* is taken.
SpecAgent == Init /\ [][AgentNext]_vars /\ WF_vars(AgentNext)

\* ---------------------------------------------------------------- observations
\* Host calls that change the host (the copy into the backup directory and
\* the restore from it are not among them).
MUTATIONS == {"apt-get install", "write", "systemctl restart", "systemctl enable"}

\* An item frame is live from the start of the item to the end of the run.
item_live == "item" \in DOMAIN it
\* The result of the item in `it` has been returned and appended.
item_returned == pc = "loop" /\ item_live
\* execute_plan returned its execution_results.
run_returned == outcome.call = "execute_plan" /\ outcome.kind = "return"

mutated == \E k \in 1..Len(host_calls) : host_calls[k][1] \in MUTATIONS
no_call_failed == \A k \in 1..Len(host_calls) : host_calls[k][2] \in {"ok", "0"}
all_success(items) == \A k \in 1..Len(items) : items[k].status = "success"

\* ---------------------------------------------------------------- claims
\* C1: the Execution a run returns is 'completed' exactly when every processed
\* item succeeded, and 'failed' when some processed item failed.
C1_CompletedIffAllSucceeded ==
    run_returned =>
        LET r == outcome.value
        IN  /\ (r.status = "completed") <=> all_success(r["items"])
            /\ ~all_success(r["items"]) => r.status = "failed"

\* C2: a stored plan's status only moves pending -> in_progress and
\* in_progress -> completed | failed; nothing else ever changes it.
C2_StatusTransitions ==
    [][\A p \in DOMAIN remediation_plans :
          LET a == remediation_plans[p].status
              b == remediation_plans'[p].status
          IN  \/ a = b
              \/ a = "pending" /\ b = "in_progress"
              \/ a = "in_progress" /\ b \in {"completed", "failed"}]_vars

\* C3: when an item requires a backup and its target existed, the copy into
\* the backup directory is the first host call of the item, backup_path is set
\* whenever a mutation has been attempted, and no backup is taken afterwards.
C3_BackupBeforeMutation ==
    (item_live /\ it.item.backup_required /\ mutated
        /\ backup_source(it.remediation) # None
        /\ it.fs_before[backup_source(it.remediation)[1]].exists)
    => /\ it.result.backup_path # None
       /\ host_calls[1] = <<"backup", "ok">>
       /\ \A k \in 2..Len(host_calls) : host_calls[k][1] # "backup"

\* A backup was recorded and a mutation of the host followed.
C3_Witness ==
    /\ item_live /\ it.item.backup_required
    /\ Len(host_calls) >= 2
    /\ host_calls[1] = <<"backup", "ok">>
    /\ host_calls[2][1] \in MUTATIONS
    /\ it.result.backup_path # None

\* C4: when the handler of a failing item returns a result that has a
\* backup_path, the target holds the backup's content, which is its content
\* when the item started, and the result is 'failed' with its error recorded.
C4_RestoredBeforeReturn ==
    [][(pc = "except" /\ pc' = "loop" /\ it'.result.backup_path # None)
        => LET target == restore_target(it.remediation)[1]
               items == ex'.execution_results["items"]
           IN  /\ fs'[target] = file_of(backup_dir[it'.result.backup_path])
               /\ fs'[target] = it.fs_before[target]
               /\ it'.result.status = "failed"
               /\ "error" \in DOMAIN it'.result
               /\ items[Len(items)] = it'.result]_vars

\* A write damaged the target, the step raised, and the item returned with
\* the target restored.
C4_Witness ==
    /\ item_returned
    /\ \E k \in 1..Len(host_calls) : host_calls[k] = <<"write", "failed">>
    /\ host_calls[Len(host_calls)] = <<"restore", "ok">>
    /\ it.result.backup_path # None
    /\ fs = it.fs_before

\* C5: the approved V-72435 item, run without any host call failing on an
\* sshd_config holding "PermitRootLogin yes", returns 'success' with an
\* 'Updated' change, the file then holds "PermitRootLogin no", and the plan of
\* a run made of that item ends 'completed'.
C5_EndToEndSuccess ==
    /\ (item_returned /\ it.item.finding_id = "V-72435"
           /\ it.remediation.type = "service_config"
           /\ it.remediation.config_file = SSHD_CONFIG
           /\ it.fs_before[SSHD_CONFIG].exists
           /\ contains(it.fs_before[SSHD_CONFIG].content, PERMIT_YES)
           /\ no_call_failed)
       => /\ it.result.status = "success"
          /\ \E k \in 1..Len(it.result.changes_made) :
                 it.result.changes_made[k] = <<"Updated", SSHD_CONFIG>>
          /\ contains(fs[SSHD_CONFIG].content, PERMIT_NO)
    /\ (run_returned /\ n_faults = 0 /\ fs[SSHD_CONFIG].exists
           /\ Len(outcome.value["items"]) = 1
           /\ outcome.value["items"][1].finding_id = "V-72435")
       => /\ outcome.value.status = "completed"
          /\ remediation_plans[outcome.plan_id].status = "completed"
          /\ outcome.value["items"][1].status = "success"

\* C6: the approved V-72435 item run while sshd_config is absent gives a
\* 'failed' result without backup_path, a 'failed' plan, and the file stays
\* absent.
C6_EndToEndFailure ==
    (run_returned /\ ~fs[SSHD_CONFIG].exists
        /\ Len(outcome.value["items"]) = 1
        /\ outcome.value["items"][1].finding_id = "V-72435")
    => /\ outcome.value["items"][1].status = "failed"
       /\ outcome.value["items"][1].backup_path = None
       /\ outcome.value.status = "failed"
       /\ remediation_plans[outcome.plan_id].status = "failed"

\* C7: the V-72435 remediation run without any host call failing: on content
\* lacking "PermitRootLogin no" it writes the file once, records one change and
\* leaves the line in the file; on content the edit leaves as it is, it writes
\* nothing and records no change.
C7_Idempotent ==
    (item_returned /\ it.item.finding_id = "V-72435"
        /\ it.fs_before[SSHD_CONFIG].exists /\ no_call_failed)
    => LET before == it.fs_before[SSHD_CONFIG].content
           writes == {k \in 1..Len(host_calls) : host_calls[k][1] = "write"}
       IN  IF apply_changes(it.remediation.changes, before) # before
           THEN /\ ~contains(before, PERMIT_NO)
                   => /\ Cardinality(writes) = 1
                      /\ Len(it.result.changes_made) = 1
                      /\ contains(fs[SSHD_CONFIG].content, PERMIT_NO)
           ELSE /\ writes = {}
                /\ it.result.changes_made = <<>>

\* C8: a file_edit item whose write succeeded and whose service restart then
\* failed ends 'failed', with the target as it was before the item started.
C8_RollbackOnRestartFailure ==
    (item_returned /\ it.remediation.type = "file_edit"
        /\ \E k \in 1..(Len(host_calls) - 1) :
              /\ host_calls[k] = <<"write", "ok">>
              /\ host_calls[k + 1][1] = "systemctl restart"
              /\ host_calls[k + 1][2] # "0")
    => /\ it.result.status = "failed"
       /\ it.result.backup_path # None
       /\ fs[it.remediation.file] = it.fs_before[it.remediation.file]

\* C9: scan() of every scanner returns a list of Findings, whatever its
\* sub-checks met; no failure of a sub-check leaves scan() as an exception.
C9_ScanNeverRaises ==
    scan_out.scanner # "none" => ~scan_out.raised

\* C10: in the list scan() returns, every sub-check that failed internally is
\* represented, in its place, by a CHECK-ERROR Finding of severity 'info' and
\* status 'error', and no CHECK-ERROR Finding has another severity.
C10_FailureBecomesCheckError ==
    (scan_out.scanner # "none" /\ ~scan_out.raised)
    => /\ \A k \in DOMAIN scan_out.env :
            scan_out.env[k] \in FAILURES
            => \E j \in 1..Len(scan_out.parts[k]) :
                   /\ scan_out.parts[k][j].rule_id = "CHECK-ERROR"
                   /\ scan_out.parts[k][j].severity = "info"
                   /\ scan_out.parts[k][j].status = "error"
       /\ \A j \in 1..Len(scan_out.findings) :
            scan_out.findings[j].rule_id = "CHECK-ERROR"
            => scan_out.findings[j].severity = "info"

\* ---------------------------------------------------------------- planner claims
\* create_plan has returned: its findings argument and the items it stored.
plan_returned == outcome.call = "create_plan" /\ outcome.kind = "return"
planned_items == remediation_plans[outcome.plan_id]["items"]
CATALOG_RULE_IDS == {"V-72427", "V-72433", "V-72435"}

\* C11: the plan create_plan returns holds, in the findings' order, exactly
\* one item per failed finding whose rule_id is in the catalog and none for a
\* failed finding whose rule_id is unknown; every item's finding_id is a
\* catalog rule_id.
C11_OneItemPerCatalogFinding ==
    plan_returned =>
        LET failed == SelectSeq(outcome.findings, LAMBDA f : f.status = "failed")
            known == SelectSeq(failed, LAMBDA f : f.rule_id \in CATALOG_RULE_IDS)
        IN  /\ Len(planned_items) = Len(known)
            /\ \A k \in 1..Len(known) :
                   planned_items[k].finding_id = known[k].rule_id
            /\ \A k \in 1..Len(planned_items) :
                   planned_items[k].finding_id \in CATALOG_RULE_IDS

\* A plan was made of a failed catalog finding and a failed unknown one.
C11_Witness ==
    /\ plan_returned
    /\ Len(planned_items) = 1
    /\ \E k \in 1..Len(outcome.findings) :
           /\ outcome.findings[k].status = "failed"
           /\ outcome.findings[k].rule_id \notin CATALOG_RULE_IDS
    /\ \E k \in 1..Len(outcome.findings) :
           /\ outcome.findings[k].status = "failed"
           /\ outcome.findings[k].rule_id \in CATALOG_RULE_IDS

\* C12: a finding whose status is not 'failed' produces no item: every item
\* of the plan stems from a failed finding, and there are no more items than
\* failed findings.
C12_OnlyFailedFindingsPlanned ==
    plan_returned =>
        /\ Len(planned_items)
             <= Cardinality({k \in 1..Len(outcome.findings) :
                                outcome.findings[k].status = "failed"})
        /\ \A j \in 1..Len(planned_items) :
               \E k \in 1..Len(outcome.findings) :
                   /\ outcome.findings[k].status = "failed"
                   /\ outcome.findings[k].rule_id = planned_items[j].finding_id

\* A plan was made of catalog findings none of which has failed.
C12_Witness ==
    /\ plan_returned
    /\ Len(outcome.findings) = 2
    /\ outcome.findings[1].rule_id = "V-72435"
    /\ outcome.findings[1].status = "error"
    /\ outcome.findings[2].rule_id = "V-72427"
    /\ outcome.findings[2].status = "open"
    /\ planned_items = <<>>

\* ---------------------------------------------------------------- agent claims
cycle_started == agent.pc = "scan" /\ agent.k = 1

\* C13: the loop of start never ends because a cycle failed: an abandoned
\* cycle is followed, after the backoff, by a new cycle, and a new scan cycle
\* is started again and again for ever.
C13_LoopNeverStops ==
    /\ [](agent.pc = "backoff" => <>(cycle_started /\ agent.after = "backoff"))
    /\ []<>cycle_started

\* A cycle that starts after the backoff of an abandoned one.
C13_Witness ==
    cycle_started /\ agent.after = "backoff"

\* ---------------------------------------------------------------- executor claims
\* C14: a call of execute_plan either loads a plan that is in the store or
\* raises "Plan not found"; the call that raises starts no item and leaves
\* the host, the backups, the Execution records and the plans as they were.
C14_PlanNotFoundNoEffect ==
    [][n_runs' = n_runs + 1
       => \/ /\ pc' = "loop"
             /\ ex'.plan_id \in DOMAIN remediation_plans
          \/ /\ outcome'.call = "execute_plan"
             /\ outcome'.kind = "raise"
             /\ outcome'.error = <<"Plan not found">>
             /\ outcome'.plan_id \notin DOMAIN remediation_plans
             /\ pc' = "idle"
             /\ UNCHANGED <<fs, backup_dir, packages, host_calls, it, ex,
                            remediation_plans, remediation_history>>]_vars

\* execute_plan raised for a plan_id the store, holding a plan, does not have.
C14_Witness ==
    /\ outcome.call = "execute_plan"
    /\ outcome.kind = "raise"
    /\ remediation_plans # <<>>
    /\ outcome.plan_id \notin DOMAIN remediation_plans
\* A run of execute_plan has loaded its plan and has not returned yet.
run_live == pc # "idle"

\* C15: while a run that loaded a plan executes its items, the stored status
\* of that plan reads 'in_progress'.
C15_InProgressWhileItemsRun ==
    (run_live /\ pc \notin {"store", "update"})
    => remediation_plans[ex.plan_id].status = "in_progress"

\* The items of a plan that a run was told to execute, in plan order.
approved_of(items, approved_items) ==
    SelectSeq(items, LAMBDA item : item.finding_id \in approved_items)

\* C16: a run executes the approved items of its plan in plan order and no
\* other: the item being executed is approved, the host, the backups and the
\* packages change only while an approved item is executed, the results
\* reported follow the approved items of the plan in order, and a run that
\* ends 'completed' reports every one of them.
C16_OnlyApprovedItemsRun ==
    /\ []((run_live /\ item_live) => it.item.finding_id \in ex.approved_items)
    /\ [](pc \in {"store", "update"}
          => LET want == approved_of(ex.plan["items"], ex.approved_items)
                 got == ex.execution_results["items"]
             IN  /\ Len(got) <= Len(want)
                 /\ \A k \in 1..Len(got) : got[k].finding_id = want[k].finding_id
                 /\ ex.execution_results.status = "completed"
                    => Len(got) = Len(want))
    /\ [][(fs' # fs \/ backup_dir' # backup_dir \/ packages' # packages)
          => (run_live /\ item_live
              /\ it.item.finding_id \in ex.approved_items)]_vars

\* A completed run over a plan of two items, told to execute the second one
\* and a finding that is not in the plan.
C16_Witness ==
    /\ pc = "update"
    /\ ex.execution_results.status = "completed"
    /\ Len(ex.plan["items"]) = 2
    /\ ex.plan["items"][1].finding_id = "V-72427"
    /\ ex.plan["items"][2].finding_id = "V-72433"
    /\ ex.approved_items = {"V-72433", "V-72435"}
    /\ Len(ex.execution_results["items"]) = 1
    /\ ex.execution_results["items"][1].finding_id = "V-72433"
    /\ packages = {}
\* C17: the rollback of a failing item touches nothing but that item's own
\* target, which it sets back to what the item found (the host as the
\* earlier items of the run left it) or leaves cut short when the copy fails;
\* packages and backups stay, and when the item returns every other file is
\* as the earlier items left it.
C17_EarlierItemsNotRolledBack ==
    [][pc = "except"
       => /\ packages' = packages
          /\ backup_dir' = backup_dir
          /\ \A f \in FILES :
                fs'[f] # fs[f]
                => /\ restore_target(it.remediation) = <<f>>
                   /\ fs'[f] \in {it.fs_before[f], file_of(<<>>)}
          /\ \A f \in FILES :
                restore_target(it.remediation) # <<f>>
                => fs'[f] = it.fs_before[f]]_vars

\* The V-72433 item changed sshd_config, then the V-72435 item failed and was
\* rolled back: the file still holds the first item's change.
C17_Witness ==
    /\ item_returned
    /\ it.item.finding_id = "V-72435"
    /\ it.result.status = "failed"
    /\ it.result.backup_path # None
    /\ Len(host_calls) > 0
    /\ host_calls[Len(host_calls)] = <<"restore", "ok">>
    /\ Len(ex.execution_results["items"]) = 2
    /\ ex.execution_results["items"][1].finding_id = "V-72433"
    /\ ex.execution_results["items"][1].status = "success"
    /\ ex.execution_results["items"][1].changes_made # <<>>
    /\ contains(fs[SSHD_CONFIG].content, PROTOCOL_2)
    /\ fs = it.fs_before
\* C18: when the loop of a run is over, the Execution holds one result for
\* each approved item of the plan, in order, every failed one with an error
\* string, whatever failed while the items ran.
C18_EveryFailureIsAResult ==
    pc \in {"store", "update"}
    => LET want == approved_of(ex.plan["items"], ex.approved_items)
           got == ex.execution_results["items"]
       IN  /\ Len(got) = Len(want)
           /\ \A k \in 1..Len(got) :
                  /\ got[k].finding_id = want[k].finding_id
                  /\ got[k].status = "failed" => "error" \in DOMAIN got[k]
\* ---------------------------------------------------------------- run_scan claims
\* The scan loop of the cycle is over.
scanned == agent.pc \in {"plan", "backoff", "sleep"}

\* C19: a scanner that raises stops nothing: once the scan loop of a cycle is
\* over every scanner has run, in order, the scan result holds the findings
\* of every scanner that did not raise, in that order, and the result
\* run_scan returns to the loop is the one the store holds.
C19_ScannerFailureIsolated ==
    /\ ("ran" \in DOMAIN agent /\ (scanned \/ agent.k > Len(scanner_names)))
       => /\ Len(agent.ran) = Len(scanner_names)
          /\ \A j \in 1..Len(scanner_names) : agent.ran[j].name = scanner_names[j]
          /\ agent.scan_results.findings
                = concat([j \in 1..Len(agent.ran) |-> agent.ran[j].results])
    /\ agent.pc = "plan"
       => /\ scan_id_of(now, HOSTNAME) \in DOMAIN scans
          /\ scans[scan_id_of(now, HOSTNAME)].findings = agent.scan_results.findings

\* run_scan stored and returned a result although the fourth scanner raised;
\* the scanners before and after it reported.
C19_Witness ==
    /\ agent.pc = "plan"
    /\ agent.ran[4].raised
    /\ agent.ran[3].results # <<>>
    /\ agent.ran[5].results # <<>>
    /\ Len(scans[scan_id_of(now, HOSTNAME)].findings) = 5

C21_BackupsNeverOverwritten ==
    [][/\ \A p \in DOMAIN backup_dir :
             p \in DOMAIN backup_dir' /\ backup_dir'[p] = backup_dir[p]
       /\ (pc = "backup" /\ Len(host_calls') > Len(host_calls))
              => backup_path_of(backup_source(it.remediation)[1], now)
                     \notin DOMAIN backup_dir]_vars

\* ---------------------------------------------------------------- executor claims
\* The positions of _execute_remediation_item and its handlers.
ITEM_POSITIONS == {"backup", "apt", "update_config", "file_edit", "restart",
                   "enable", "success", "except"}

\* C22: a run executes its items one after the other: the host, the backups
\* and the packages change only inside the one item in progress, which is
\* the item the loop stands at; when the next approved item starts, every
\* approved item before it has its final result, success or failed with its
\* rollback done, in execution_results; and a result once appended is not
\* touched again during the run.
C22_ItemsRunSequentially ==
    [][/\ <<fs, backup_dir, packages>>' # <<fs, backup_dir, packages>>
          => /\ pc \in ITEM_POSITIONS
             /\ it.item = ex.plan["items"][ex.i]
       /\ (pc = "loop" /\ pc' = "backup")
          => LET done == approved_of(SubSeq(ex.plan["items"], 1, ex.i - 1),
                                     ex.approved_items)
                 got == ex.execution_results["items"]
             IN  /\ Len(got) = Len(done)
                 /\ \A k \in 1..Len(got) :
                       /\ got[k].finding_id = done[k].finding_id
                       /\ got[k].status \in {"success", "failed"}
                 /\ item_live => got[Len(got)] = it.result
                 /\ it'.item = ex.plan["items"][ex.i]
       /\ (run_live /\ pc' # "idle")
          => \A k \in 1..Len(ex.execution_results["items"]) :
                 ex'.execution_results["items"][k] = ex.execution_results["items"][k]
      ]_vars

\* The second approved item of a run starts: the first one failed after its
\* backup and its rolled back result is in execution_results.
C22_Witness ==
    /\ pc = "backup"
    /\ ex.i = 2
    /\ host_calls = <<>>
    /\ Len(ex.execution_results["items"]) = 1
    /\ ex.execution_results["items"][1].status = "failed"
    /\ ex.execution_results["items"][1].backup_path # None
    /\ "error" \in DOMAIN ex.execution_results["items"][1]

\* The entries of changes_made that record a write of the edited file.
updated_entries(result) ==
    SelectSeq(result.changes_made, LAMBDA c : c[1] = "Updated")

\* C23: the file edit step writes its target only when the change operations
\* give a content that differs from the one the file holds: otherwise it
\* attempts no write and records no 'Updated' entry; when they differ it
\* attempts one write, of the new content, and records 'Updated' only when
\* the write succeeded; and a content it wrote is left as it is by the same
\* change operations, so that running the edit again writes nothing.
C23_WritesOnlyWhenContentDiffers ==
    [][pc = "file_edit"
       => LET editable == /\ "file" \in DOMAIN it.remediation
                          /\ fs[it.remediation.file].exists
              content == fs[it.remediation.file].content
              new_content == apply_changes(it.remediation.changes, content)
          IN  IF editable /\ new_content # content
              THEN /\ host_calls' \in {Append(host_calls, <<"write", "ok">>),
                                       Append(host_calls, <<"write", "failed">>)}
                   /\ IF updated_entries(it'.result) # updated_entries(it.result)
                      THEN /\ fs' = [fs EXCEPT ![it.remediation.file] =
                                                   file_of(new_content)]
                           /\ apply_changes(it.remediation.changes, new_content)
                                  = new_content
                      ELSE /\ pc' = "except"
                           /\ fs'[it.remediation.file] # file_of(new_content)
              ELSE /\ fs' = fs
                   /\ host_calls' = host_calls
                   /\ updated_entries(it'.result) = updated_entries(it.result)
      ]_vars

\* The V-72433 edit is run a second time on the file an earlier run of it
\* rewrote: it succeeds without a write and without an 'Updated' entry.
C23_Witness ==
    /\ item_returned
    /\ n_runs = 2
    /\ it.item.finding_id = "V-72433"
    /\ it.result.status = "success"
    /\ updated_entries(it.result) = <<>>
    /\ fs = it.fs_before
    /\ \E e \in DOMAIN remediation_history :
          /\ Len(remediation_history[e]["items"]) = 1
          /\ remediation_history[e]["items"][1].finding_id = "V-72433"
          /\ updated_entries(remediation_history[e]["items"][1])
                = <<<<"Updated", SSHD_CONFIG>>>>

\* The lines of a text that a change's regex matches: those that start with
\* its keyword.
matching_lines(word, text) ==
    {k \in 1..Len(split_lines(text)) :
        Len(split_lines(text)[k]) > 0 /\ split_lines(text)[k][1] = word}

\* C24: a file edit that wrote its file replaced, for each regex change, at
\* most the first line the pattern matches and left every later matching
\* line as it was; and it made the file longer only by a line that the
\* content did not hold.
C24_RegexReplacesFirstMatchOnly ==
    [][(pc = "file_edit"
        /\ updated_entries(it'.result) # updated_entries(it.result))
       => LET content == fs[it.remediation.file].content
              written == fs'[it.remediation.file].content
              changes == it.remediation.changes
          IN  \A c \in 1..Len(changes) :
                /\ "regex" \in DOMAIN changes[c]
                   => \A k \in matching_lines(changes[c].regex, content) :
                         (\E j \in matching_lines(changes[c].regex, content) : j < k)
                         => split_lines(written)[k] = split_lines(content)[k]
                /\ ("append_if_not_found" \in DOMAIN changes[c]
                    /\ Len(split_lines(written)) > Len(split_lines(content)))
                   => ~contains(content, changes[c].append_if_not_found)
      ]_vars

\* The item in progress made a call of the given kind that failed.
call_failed(name) ==
    \E k \in 1..Len(host_calls) : host_calls[k] = <<name, "failed">>

\* C25: a package installation that did not end with exit status 0 fails
\* its item: the handler stops at once, the package is not recorded as
\* installed, no 'Installed package' entry is made, the settings of the
\* item are never written to its config file, and the result the item
\* returns is 'failed' with an error.
C25_InstallFailureIsHard ==
    /\ [][(pc = "apt" /\ host_calls' = Append(host_calls, <<"apt-get install", "failed">>))
          => /\ pc' = "except"
             /\ packages' = packages
             /\ fs' = fs
             /\ it'.result = it.result]_vars
    /\ []((run_live /\ item_live /\ call_failed("apt-get install"))
          => /\ pc \notin {"update_config", "success"}
             /\ \A k \in 1..Len(host_calls) : host_calls[k][1] # "write"
             /\ \A k \in 1..Len(it.result.changes_made) :
                    it.result.changes_made[k][1] \notin {"Installed package", "Updated", "Added"}
             /\ item_returned
                => /\ it.result.status = "failed"
                   /\ "error" \in DOMAIN it.result
                   /\ ex.execution_results["items"][Len(ex.execution_results["items"])]
                         = it.result)

\* apt-get install ended with a non-zero exit status: the V-72427 item came
\* back failed, its config file restored from the backup and never written.
C25_Witness ==
    /\ item_returned
    /\ it.item.finding_id = "V-72427"
    /\ host_calls = << <<"backup", "ok">>, <<"apt-get install", "failed">>,
                       <<"restore", "ok">> >>
    /\ it.result.status = "failed"
    /\ it.result.error = "Failed to install package"
    /\ it.result.changes_made = <<>>
    /\ packages = {}
    /\ fs = it.fs_before

\* The lines of a file's text, without their line ends.
text_lines(content) ==
    LET ls == split_lines(content)
    IN  IF ls[Len(ls)] = <<>> THEN SubSeq(ls, 1, Len(ls) - 1) ELSE ls

\* The line holds '=' and the text before it names the key.
sets_key(line, key) ==
    /\ "=" \in {line[k] : k \in 1..Len(line)}
    /\ split_key(line) = <<key>>

\* C26: after the settings upsert wrote the config file, every key of the
\* settings stands in the file with its given value, on the line that held
\* it before or else on one line appended at the end, and every other line
\* of the file, with or without '=', is the line it was, at the place it was.
C26_UpsertKeepsOtherLines ==
    [][(pc = "update_config" /\ pc' = "success")
       => LET file_path == it.remediation.config_file
              settings == it.remediation.settings
              old == text_lines(fs[file_path].content)
              new == text_lines(fs'[file_path].content)
              missing == {key \in settings_keys(settings) :
                             \A k \in 1..Len(old) : ~sets_key(old[k], key)}
          IN  /\ Len(new) = Len(old) + Cardinality(missing)
              /\ \A key \in settings_keys(settings) :
                    LET line == <<key, SP, "=", SP, settings_value(settings, key)>>
                    IN  /\ \A k \in 1..Len(new) : sets_key(new[k], key) => new[k] = line
                        /\ \A k \in 1..Len(old) : sets_key(old[k], key) => new[k] = line
                        /\ key \in missing
                           => Cardinality({k \in 1..Len(new) : new[k] = line}) = 1
              /\ \A k \in 1..Len(old) :
                    (\A key \in settings_keys(settings) : ~sets_key(old[k], key))
                    => new[k] = old[k]
      ]_vars

\* ---------------------------------------------------------------- planner claims
\* C27: the items of the plan create_plan returns can be matched one by one
\* with failed findings of the scan, each item with a finding of its rule_id
\* and title, so that an item that comes later in the plan is matched with a
\* finding that comes later in the findings list.
C27_ItemsKeepFindingsOrder ==
    plan_returned =>
        \E origin \in [1..Len(planned_items) -> 1..Len(outcome.findings)] :
            /\ \A j \in 1..Len(planned_items) :
                   /\ outcome.findings[origin[j]].status = "failed"
                   /\ outcome.findings[origin[j]].rule_id = planned_items[j].finding_id
                   /\ outcome.findings[origin[j]].title = planned_items[j].title
            /\ \A i, j \in 1..Len(planned_items) : i < j => origin[i] < origin[j]

\* A plan of two items whose findings came in the order V-72435, V-72427,
\* the reverse of the catalog's order.
C27_Witness ==
    /\ plan_returned
    /\ Len(outcome.findings) = 2
    /\ outcome.findings[1].rule_id = "V-72435"
    /\ outcome.findings[2].rule_id = "V-72427"
    /\ Len(planned_items) = 2
    /\ planned_items[1].finding_id = "V-72435"
    /\ planned_items[2].finding_id = "V-72427"

\* ---------------------------------------------------------------- approval claims
\* C28: the backup step of an item copies the target exactly when the
\* item's own backup_required value is true and the target exists, whatever
\* the RemediationSpec embedded in the item says.
C28_ItemFlagDecidesBackup ==
    [][(pc = "backup" /\ pc' # "backup")
       => LET source == backup_source(it.remediation)
              target_exists == source # None /\ fs[source[1]].exists
          IN  (host_calls' # host_calls)
              <=> (it.item.backup_required /\ target_exists)]_vars

\* ---------------------------------------------------------------- cycle claims
\* C29: the step of a cycle that follows the stored scan makes a plan that
\* carries the scan_id under which the store holds that scan, and the scan
\* result the cycle asks its report with carries that same scan_id.
C29_PlanAndReportCarryScanId ==
    [][(agent.pc = "plan" /\ agent'.pc # "plan")
       => /\ "scan_id" \in DOMAIN agent.scan_results
          /\ agent.scan_results.scan_id \in DOMAIN scans
          /\ scans[agent.scan_results.scan_id].findings = agent.scan_results.findings
          /\ \E p \in DOMAIN remediation_plans' \ DOMAIN remediation_plans :
                remediation_plans'[p].scan_id = agent.scan_results.scan_id]_vars

\* ---------------------------------------------------------------- history claims
\* C30: the execution history only grows and no record in it changes; the
\* store step of every run adds exactly one record, that run's Execution,
\* and goes on to update the plan; so a run that loaded a plan ends with its
\* record in the history and the plan's status set to the run's status.
C30_HistoryCompleteAppendOnly ==
    [][/\ \A e \in DOMAIN remediation_history :
             /\ e \in DOMAIN remediation_history'
             /\ remediation_history'[e] = remediation_history[e]
       /\ (pc = "store" /\ pc' # "store")
          => /\ pc' = "update"
             /\ Cardinality(DOMAIN remediation_history' \ DOMAIN remediation_history) = 1
             /\ \E e \in DOMAIN remediation_history' \ DOMAIN remediation_history :
                   /\ remediation_history'[e].plan_id = ex.plan_id
                   /\ remediation_history'[e]["items"] = ex.execution_results["items"]
       /\ (run_live /\ pc' = "idle")
          => /\ \E e \in DOMAIN remediation_history' :
                   /\ remediation_history'[e].plan_id = ex.plan_id
                   /\ remediation_history'[e]["items"] = ex.execution_results["items"]
             /\ remediation_plans'[ex.plan_id].status = ex.execution_results.status
      ]_vars

=============================================================================
